---- MODULE Spec2Model ----
(***************************************************************************)
(* Model of the map chart's data pipeline (src/src/chart/map/MapChart.tsx):*)
(* record ingestion into the closure-captured accumulator maps, node       *)
(* enrichment (position, colour), link resolution, viewport fit, the       *)
(* geo-filter query builder and the asynchronous query round trip.         *)
(***************************************************************************)
EXTENDS Integers, Sequences, FiniteSets, TLC

(***************************************************************************)
(* Bounds of the model.                                                    *)
(***************************************************************************)
MaxRequests == 3

(***************************************************************************)
(* Program constants.  The per-pixel scale factors 8.55 and 6.7 are kept   *)
(* as integers over ScaleDen.                                              *)
(***************************************************************************)
widthScaleNum == 855
heightScaleNum == 670
ScaleDen == 100
fallbackDimension == 300
defaultDimension == 100
defaultPolylineRadius == 500
RelWidthNum == 35
RelWidthDen == 10

(***************************************************************************)
(* JavaScript numbers: a finite rational n/d (d > 0, lowest terms), NaN,   *)
(* +Infinity or -Infinity.                                                 *)
(***************************************************************************)
NaN == [k |-> "nan", n |-> 0, d |-> 1]
Inf == [k |-> "inf", n |-> 0, d |-> 1]
NegInf == [k |-> "ninf", n |-> 0, d |-> 1]

Abs(i) == IF i < 0 THEN -i ELSE i

RECURSIVE Gcd(_, _)
Gcd(a, b) == IF b = 0 THEN a ELSE Gcd(b, a % b)

Rat(n, d) ==
  LET g == Gcd(Abs(n), Abs(d))
      s == IF d < 0 THEN -1 ELSE 1
  IN  [k |-> "num", n |-> (s * n) \div g, d |-> (s * d) \div g]

Num(i) == [k |-> "num", n |-> i, d |-> 1]

IsFinite(a) == a.k = "num"

IsInteger(a) == a.k = "num" /\ a.d = 1

Neg(a) ==
  CASE a.k = "nan" -> NaN
    [] a.k = "inf" -> NegInf
    [] a.k = "ninf" -> Inf
    [] OTHER -> Rat(-a.n, a.d)

\* a + b
Add(a, b) ==
  CASE a.k = "nan" \/ b.k = "nan" -> NaN
    [] a.k = "inf" -> IF b.k = "ninf" THEN NaN ELSE Inf
    [] a.k = "ninf" -> IF b.k = "inf" THEN NaN ELSE NegInf
    [] b.k = "inf" -> Inf
    [] b.k = "ninf" -> NegInf
    [] OTHER -> Rat(a.n * b.d + b.n * a.d, a.d * b.d)

\* a - b
Sub(a, b) == Add(a, Neg(b))

\* a / b, for a finite b > 0 or b = 0 (the only divisors the code uses)
Div(a, b) ==
  CASE a.k = "nan" \/ b.k = "nan" -> NaN
    [] b.k # "num" -> IF a.k = "num" THEN Num(0) ELSE NaN
    [] b.n = 0 ->
         IF a.k = "num" /\ a.n = 0 THEN NaN
         ELSE IF a.k = "inf" \/ (a.k = "num" /\ a.n > 0) THEN Inf ELSE NegInf
    [] a.k = "inf" -> IF b.n > 0 THEN Inf ELSE NegInf
    [] a.k = "ninf" -> IF b.n > 0 THEN NegInf ELSE Inf
    [] OTHER -> Rat(a.n * b.d, a.d * b.n)

\* a < b on JavaScript numbers (false whenever NaN is involved)
Lt(a, b) ==
  CASE a.k = "nan" \/ b.k = "nan" -> FALSE
    [] a.k = "inf" -> FALSE
    [] b.k = "ninf" -> FALSE
    [] a.k = "ninf" -> TRUE
    [] b.k = "inf" -> TRUE
    [] OTHER -> a.n * b.d < b.n * a.d

\* a <= b on JavaScript numbers (false whenever NaN is involved)
Leq(a, b) == a.k # "nan" /\ b.k # "nan" /\ (a = b \/ Lt(a, b))

\* Math.min(a, b)
Min2(a, b) ==
  IF a.k = "nan" \/ b.k = "nan" THEN NaN ELSE IF Lt(b, a) THEN b ELSE a

\* Math.max(a, b)
Max2(a, b) ==
  IF a.k = "nan" \/ b.k = "nan" THEN NaN ELSE IF Lt(a, b) THEN b ELSE a

\* Math.min(...xs): Infinity for an empty list
RECURSIVE MathMin(_)
MathMin(xs) == IF xs = << >> THEN Inf ELSE Min2(Head(xs), MathMin(Tail(xs)))

\* Math.max(...xs): -Infinity for an empty list
RECURSIVE MathMax(_)
MathMax(xs) == IF xs = << >> THEN NegInf ELSE Max2(Head(xs), MathMax(Tail(xs)))

\* xs.reduce((a, b) => a + b, 0)
RECURSIVE SumList(_)
SumList(xs) == IF xs = << >> THEN Num(0) ELSE Add(Head(xs), SumList(Tail(xs)))

\* least j >= 1 with q * 2^j >= p (p > q > 0)
RECURSIVE CeilLogUp(_, _, _)
CeilLogUp(p, q, j) == IF q * 2 >= p THEN j ELSE CeilLogUp(p, q * 2, j + 1)

\* greatest j >= 0 with p * 2^j <= q (0 < p <= q)
RECURSIVE FloorLogDown(_, _, _)
FloorLogDown(p, q, j) == IF p * 2 > q THEN j ELSE FloorLogDown(p * 2, q, j + 1)

\* Math.ceil(Math.log2(a))
CeilLog2(a) ==
  CASE a.k = "nan" -> NaN
    [] a.k = "inf" -> Inf
    [] a.k = "ninf" -> NaN
    [] a.n < 0 -> NaN
    [] a.n = 0 -> NegInf
    [] a.n > a.d -> Num(CeilLogUp(a.n, a.d, 1))
    [] OTHER -> Num(-FloorLogDown(a.n, a.d, 0))

(***************************************************************************)
(* Property values as they arrive from the driver: null/absent, a number,  *)
(* a numeric string ("12") or a non-numeric string ("abc").                *)
(***************************************************************************)
Null == [t |-> "null", v |-> 0]
N(i) == [t |-> "num", v |-> i]
S(i) == [t |-> "str", v |-> i]
Txt == [t |-> "txt", v |-> 0]

\* JavaScript truthiness of a property value
Truthy(x) ==
  CASE x.t = "null" -> FALSE
    [] x.t = "num" -> x.v # 0
    [] OTHER -> TRUE

\* parseFloat(x)
ParseFloat(x) ==
  CASE x.t = "num" -> Num(x.v)
    [] x.t = "str" -> Num(x.v)
    [] OTHER -> NaN

\* the global isNaN(x), which coerces with Number(x)
IsNaNjs(x) == x.t = "txt"

\* a property value that is not a spatial point / an absent property
NoPoint == [srid |-> Null, x |-> Null, y |-> Null]
Point(x, y) == [srid |-> N(4326), x |-> x, y |-> y]

NoProps ==
  [latitude |-> Null, longitude |-> Null, lat |-> Null, long |-> Null,
   location |-> NoPoint, color |-> "", width |-> Null]

(***************************************************************************)
(* Configuration (the defaults of lines 22-37; of props.settings only      *)
(* filterQuery is modelled as supplied, "" standing for an absent setting).*)
(***************************************************************************)
VARIABLE settings   \* props.settings (set at mount, never changed)

defaultFilterQuery == "MATCH (n)-[r]->(m)"
defaultNodeSize == "large"
defaultRelWidth == Rat(RelWidthNum, RelWidthDen)
defaultRelColor == "#666"
defaultNodeColor == "grey"
\* variant: the pattern is fixed, as in the fragments of MapChart_prv.tsx
filterQueryFixed == defaultFilterQuery

\* props.settings && props.settings.filterQuery ? ... : 'MATCH (n)-[r]->(m)'
filterQuery ==
  IF settings.filterQuery # "" THEN settings.filterQuery ELSE defaultFilterQuery
Palette == <<"#588c7e", "#f2e394", "#f2ae72">>
NoLabel == ""
NoPos == << >>
Undefined == [kind |-> "undefined"]

(***************************************************************************)
(* Raw fields.                                                             *)
(***************************************************************************)
Int64(low) == [low |-> low, high |-> 0]

NodeField(id, labels, props) ==
  [kind |-> "node", identity |-> Int64(id), labels |-> labels, properties |-> props]

RelField(id, s, t, type, props) ==
  [kind |-> "relationship", identity |-> Int64(id), start |-> Int64(s),
   end |-> Int64(t), type |-> type, properties |-> props]

\* a plain map; label/type "" and id/start/end 0 stand for an absent key
ObjectField(label, id, type, s, t, props) ==
  [kind |-> "object", label |-> label, id |-> id, type |-> type,
   start |-> s, end |-> t, props |-> props]

ArrayField(items) == [kind |-> "array", items |-> items]
PathField(segments) == [kind |-> "path", segments |-> segments]
ScalarField == [kind |-> "scalar"]
NullField == [kind |-> "null"]

(***************************************************************************)
(* The accumulators of one render closure (lines 73-76).  nodes is keyed   *)
(* by id (Object.values lists integer keys in ascending order);            *)
(* nodeLabels and links keep insertion order.                              *)
(***************************************************************************)
EmptyAcc == [nodes |-> << >>, nodeLabels |-> << >>, links |-> << >>]

\* the empty nodes map is the function with the empty domain
Put(f, key, val) == [x \in (DOMAIN f) \cup {key} |-> IF x = key THEN val ELSE f[x]]

InSeq(x, xs) == \E i \in 1..Len(xs) : xs[i] = x

\* nodeLabels[l] = true
AddLabel(labels, l) == IF InSeq(l, labels) THEN labels ELSE Append(labels, l)

RECURSIVE AddLabels(_, _)
AddLabels(labels, ls) ==
  IF ls = << >> THEN labels ELSE AddLabels(AddLabel(labels, Head(ls)), Tail(ls))

\* variant: the item is pushed without looking for its id
addItemAlways(arr, item) == Append(arr, item)

\* arr.find((x) => x.id === item.id) || arr.push(item)
addItem(arr, item) ==
  IF \E i \in 1..Len(arr) : arr[i].id = item.id THEN arr ELSE Append(arr, item)

\* links[`${s},${t}`] created when undefined, then addItem on it
AddLink(links, item) ==
  LET key == <<item.source, item.target>> IN
  IF \E i \in 1..Len(links) : links[i].key = key
  THEN [i \in 1..Len(links) |->
          IF links[i].key = key
          THEN [links[i] EXCEPT !.items = addItem(links[i].items, item)]
          ELSE links[i]]
  ELSE Append(links, [key |-> key, items |-> <<item>>])

ManualNode(value) ==
  [id |-> value.id, labels |-> <<value.label>>, size |-> defaultNodeSize,
   properties |-> value.props, firstLabel |-> value.label, pos |-> NoPos]

ManualLink(value) ==
  [id |-> value.id, source |-> value.start, target |-> value.end,
   type |-> value.type,
   width |-> IF Truthy(value.props.width) THEN value.props.width
             ELSE defaultRelWidth,
   color |-> IF value.props.color # "" THEN value.props.color ELSE defaultRelColor,
   properties |-> value.props]

TypedNode(value) ==
  [id |-> value.identity.low, labels |-> value.labels, size |-> defaultNodeSize,
   properties |-> value.properties,
   firstLabel |-> IF value.labels = << >> THEN NoLabel ELSE value.labels[1],
   pos |-> NoPos]

TypedLink(value) ==
  [id |-> value.identity.low, source |-> value.start.low, target |-> value.end.low,
   type |-> value.type,
   width |-> IF Truthy(value.properties.width) THEN value.properties.width
             ELSE defaultRelWidth,
   color |-> IF value.properties.color # "" THEN value.properties.color
             ELSE defaultRelColor,
   properties |-> value.properties]

\* variant: a map that has a type is never taken for a node
IsManualNodeWithoutType(value) ==
  value.label # "" /\ value.id # 0 /\ value.type = ""

\* value.label && value.id
IsManualNode(value) == value.label # "" /\ value.id # 0

\* value.type && value.id && value.start && value.end
IsManualRel(value) ==
  value.type # "" /\ value.id # 0 /\ value.start # 0 /\ value.end # 0

RECURSIVE extractGraphEntitiesFromField(_, _)
RECURSIVE ExtractEach(_, _)
RECURSIVE ExtractSegments(_, _)

extractGraphEntitiesFromField(acc, value) ==
  CASE value.kind = "null" -> acc
    [] value.kind = "array" -> ExtractEach(acc, value.items)
    [] value.kind = "object" ->
         IF IsManualNode(value)
         THEN [acc EXCEPT !.nodeLabels = AddLabel(@, value.label),
                          !.nodes = Put(@, value.id, ManualNode(value))]
         ELSE IF IsManualRel(value)
         THEN [acc EXCEPT !.links = AddLink(@, ManualLink(value))]
         ELSE acc
    [] value.kind = "node" ->
         [acc EXCEPT !.nodeLabels = AddLabels(@, value.labels),
                     !.nodes = Put(@, value.identity.low, TypedNode(value))]
    [] value.kind = "relationship" ->
         [acc EXCEPT !.links = AddLink(@, TypedLink(value))]
    [] value.kind = "path" -> ExtractSegments(acc, value.segments)
    [] OTHER -> acc

\* value.forEach((v) => extractGraphEntitiesFromField(v))
ExtractEach(acc, values) ==
  IF values = << >> THEN acc
  ELSE ExtractEach(extractGraphEntitiesFromField(acc, Head(values)), Tail(values))

\* value.segments.map(segment => start, relationship, end)
ExtractSegments(acc, segments) ==
  IF segments = << >> THEN acc
  ELSE LET g == Head(segments)
           a1 == extractGraphEntitiesFromField(acc, g.start)
           a2 == extractGraphEntitiesFromField(a1, g.relationship)
           a3 == extractGraphEntitiesFromField(a2, g.end)
       IN  ExtractSegments(a3, Tail(segments))

\* records.forEach(record => record._fields && record._fields.forEach(...))
RECURSIVE ExtractRecords(_, _)
ExtractRecords(acc, records) ==
  IF records = << >> THEN acc
  ELSE ExtractRecords(ExtractEach(acc, Head(records)._fields), Tail(records))

(***************************************************************************)
(* Enrichment: position and colour of nodes, resolution of links.          *)
(***************************************************************************)
\* rule (a): node.properties.latitude && node.properties.longitude
HasLatitudeLongitude(props) == Truthy(props.latitude) /\ Truthy(props.longitude)

\* rule (b): node.properties.lat && node.properties.long
HasLatLong(props) == Truthy(props.lat) /\ Truthy(props.long)

\* rule (c): a property p with p.srid, p.x, p.y != null and numeric x, y
IsSpatialPoint(p) ==
  /\ p.srid.t # "null" /\ p.x.t # "null" /\ p.y.t # "null"
  /\ ~IsNaNjs(p.x) /\ ~IsNaNjs(p.y)

\* a coordinate stored as is (rule (c) does not parse); the points of the
\* model carry numbers, null or non-numeric text
RawCoord(x) == IF x.t = "txt" THEN NaN ELSE Num(x.v)

\* the value assignPosition leaves in nodes[node.id].pos
assignPosition(node) ==
  IF HasLatitudeLongitude(node.properties)
  THEN <<ParseFloat(node.properties.latitude), ParseFloat(node.properties.longitude)>>
  ELSE IF HasLatLong(node.properties)
  THEN <<ParseFloat(node.properties.lat), ParseFloat(node.properties.long)>>
  ELSE IF IsSpatialPoint(node.properties.location)
  THEN <<RawCoord(node.properties.location.y), RawCoord(node.properties.location.x)>>
  ELSE node.pos

\* nodeLabelsList.indexOf(label), 0-based, -1 when absent
RECURSIVE IndexFrom(_, _, _)
IndexFrom(xs, x, i) ==
  IF i > Len(xs) THEN -1 ELSE IF xs[i] = x THEN i - 1 ELSE IndexFrom(xs, x, i + 1)

indexOf(xs, x) == IndexFrom(xs, x, 1)

\* categoricalColorSchemes[nodeColorScheme][i]; "" stands for undefined
PaletteAt(i) == IF i >= 0 /\ i < Len(Palette) THEN Palette[i + 1] ELSE ""

\* JavaScript i % n, which keeps the sign of i
JsMod(i, n) == IF i < 0 THEN -((-i) % n) ELSE i % n

\* evaluateRulesOnNode with no style rule: the candidate is returned
evaluateRulesOnNode(node, candidate) == candidate

\* variant: the first label is looked up in the node's own labels
assignedColorByOwnLabels(node, nodeLabelsList) ==
  LET totalColors == Len(Palette)
      c == IF node.properties.color # "" THEN node.properties.color
           ELSE PaletteAt(JsMod(indexOf(node.labels, node.firstLabel), totalColors))
      r == evaluateRulesOnNode(node, c)
  IN  IF r # "" THEN r ELSE defaultNodeColor

\* lines 178-187
assignedColor(node, nodeLabelsList) ==
  LET totalColors == Len(Palette)
      c == IF node.properties.color # "" THEN node.properties.color
           ELSE PaletteAt(JsMod(indexOf(nodeLabelsList, node.firstLabel), totalColors))
      r == evaluateRulesOnNode(node, c)
  IN  IF r # "" THEN r ELSE defaultNodeColor

\* the nodes map once every node went through assignPosition
PositionNodes(nodes) ==
  [id \in DOMAIN nodes |-> [nodes[id] EXCEPT !.pos = assignPosition(nodes[id])]]

\* the ids of a nodes map in Object.values order (ascending integer keys)
RECURSIVE SortedIds(_)
SortedIds(ids) ==
  IF ids = {} THEN << >>
  ELSE LET m == CHOOSE x \in ids : \A y \in ids : x <= y
       IN  <<m>> \o SortedIds(ids \ {m})

\* update(node, {pos, color}) for each of Object.values(nodes)
NodesList(nodes, nodeLabelsList) ==
  LET ids == SortedIds(DOMAIN nodes) IN
  [i \in 1..Len(ids) |->
     LET node == nodes[ids[i]] IN
     [id |-> node.id, labels |-> node.labels, size |-> node.size,
      properties |-> node.properties, firstLabel |-> node.firstLabel,
      pos |-> node.pos, color |-> assignedColor(node, nodeLabelsList)]]

\* nodes[id] && nodes[id].pos
HasPos(nodes, id) == id \in DOMAIN nodes /\ nodes[id].pos # NoPos

\* variant: the target's position is not looked at
LinkResolvesByTargetPresence(nodes, link) ==
  HasPos(nodes, link.source) /\ link.target \in DOMAIN nodes

\* the condition of line 194
LinkResolves(nodes, link) == HasPos(nodes, link.source) /\ HasPos(nodes, link.target)

\* update(link, {start, end}), or undefined when an endpoint has no position
PositionLink(nodes, link) ==
  IF LinkResolves(nodes, link)
  THEN [id |-> link.id, source |-> link.source, target |-> link.target,
        type |-> link.type, width |-> link.width, color |-> link.color,
        properties |-> link.properties,
        start |-> nodes[link.source].pos, end |-> nodes[link.target].pos]
  ELSE Undefined

\* Object.values(links).map(nodePair => nodePair.map(...)).flat()
RECURSIVE LinksList(_, _)
LinksList(nodes, links) ==
  IF links = << >> THEN << >>
  ELSE [i \in 1..Len(Head(links).items) |-> PositionLink(nodes, Head(links).items[i])]
       \o LinksList(nodes, Tail(links))

(***************************************************************************)
(* The line layer (createLines) and the props of the map surface.          *)
(***************************************************************************)
RECURSIVE createLines(_)
\* data.links.filter((link) => link).map((rel, i) => rel.start && rel.end ? ...)
\* as the Polylines drawn; called with the links of the state
createLines(links) ==
  IF links = << >> THEN << >>
  ELSE IF Head(links) = Undefined THEN createLines(Tail(links))
  ELSE <<[positions |-> <<Head(links).start, Head(links).end>>,
          weight |-> Head(links).width, color |-> Head(links).color]>>
       \o createLines(Tail(links))

\* the truthiness of a number: NaN and 0 are falsy
TruthyNumber(x) == x # NaN /\ x # Num(0)

\* the center and zoom props of MapContainer (lines 367-368)
MapContainerProps(d) ==
  [center |-> <<IF TruthyNumber(d.centerLatitude) THEN d.centerLatitude ELSE Num(0),
                IF TruthyNumber(d.centerLongitude) THEN d.centerLongitude ELSE Num(0)>>,
   zoom |-> IF TruthyNumber(d.zoom) THEN d.zoom ELSE Num(0)]

(***************************************************************************)
(* Viewport fit (lines 203-238).                                           *)
(***************************************************************************)
RECURSIVE Coordinates(_, _)
Coordinates(nodesList, axis) ==
  IF nodesList = << >> THEN << >>
  ELSE IF Head(nodesList).pos = NoPos THEN Coordinates(Tail(nodesList), axis)
  ELSE <<Head(nodesList).pos[axis]>> \o Coordinates(Tail(nodesList), axis)

\* dimensions.width ? dimensions.width : 300 (and the same for height)
PixelDimension(d) == IF d # 0 THEN d ELSE fallbackDimension

\* Math.ceil(Math.log2(1.0 / ((axisMax - avg) / scaleFactor)))
AxisZoomFit(axisMax, axisMin, scaleFactor) ==
  LET avg == Sub(axisMax, Div(Sub(axisMax, axisMin), Num(2)))
      diff == Sub(axisMax, avg)
      projected == Div(diff, scaleFactor)
  IN  CeilLog2(Div(Num(1), projected))

\* const maxLat = Math.max(...latitudes)
maxLat(latitudes) == MathMax(latitudes)

\* const minLat = Math.min(...latitudes)
minLat(latitudes) == MathMin(latitudes)

\* const maxLong = Math.min(...longitudes)
maxLong(longitudes) == MathMin(longitudes)

\* const minLong = Math.min(...longitudes)
minLong(longitudes) == MathMin(longitudes)

latZoomFit(latitudes, dims) ==
  AxisZoomFit(maxLat(latitudes), minLat(latitudes),
              Rat(PixelDimension(dims.width) * ScaleDen, widthScaleNum))

longZoomFit(longitudes, dims) ==
  AxisZoomFit(maxLong(longitudes), minLong(longitudes),
              Rat(PixelDimension(dims.height) * ScaleDen, heightScaleNum))

\* variant: Math.max in place of Math.min
ZoomOfMax(latFit, longFit) == Max2(latFit, longFit)

\* zoom: Math.min(latZoomFit, longZoomFit)
ZoomOf(latFit, longFit) == Min2(latFit, longFit)

\* xs.reduce((a, b) => a + b, 0) / xs.length
Mean(xs) == Div(SumList(xs), Num(Len(xs)))

\* the dataSet of lines 235-241
Fit(nodesList, linksList, dims) ==
  LET latitudes == Coordinates(nodesList, 1)
      longitudes == Coordinates(nodesList, 2)
  IN  [zoom |-> ZoomOf(latZoomFit(latitudes, dims), longZoomFit(longitudes, dims)),
       centerLatitude |-> Mean(latitudes),
       centerLongitude |-> Mean(longitudes),
       nodes |-> nodesList,
       links |-> linksList]

\* buildVisualizationDictionaryFromRecords on the accumulators acc of the
\* calling closure: the accumulators it leaves and the dataSet it returns
buildVisualizationDictionaryFromRecords(acc, records, dims) ==
  LET a1 == ExtractRecords(acc, records)
      positioned == PositionNodes(a1.nodes)
      nodesList == NodesList(positioned, a1.nodeLabels)
      linksList == LinksList(positioned, a1.links)
  IN  [acc |-> [a1 EXCEPT !.nodes = positioned],
       dataSet |-> Fit(nodesList, linksList, dims)]

(***************************************************************************)
(* Rows the query channel (and props.records) can deliver.                 *)
(***************************************************************************)
City1 ==
  NodeField(1, <<"City">>, [NoProps EXCEPT !.latitude = N(10), !.longitude = N(20)])
Town2 ==
  NodeField(2, <<"Town">>, [NoProps EXCEPT !.lat = N(11), !.long = N(60)])
Garbled2 ==
  NodeField(2, <<"Town">>, [NoProps EXCEPT !.latitude = S(12), !.longitude = Txt])
Poi3 ==
  ObjectField("Poi", 3, "", 0, 0, [NoProps EXCEPT !.location = Point(N(5), N(7))])
Bare3 == NodeField(3, <<"City">>, NoProps)
Road9 == RelField(9, 1, 2, "ROAD", NoProps)
Rail9 == ObjectField("", 9, "RAIL", 1, 2, [NoProps EXCEPT !.width = N(2)])
Road8 == RelField(8, 2, 3, "ROAD", [NoProps EXCEPT !.color = "red"])
\* a node on the equator
Equator4 ==
  NodeField(4, <<"Port">>, [NoProps EXCEPT !.latitude = N(0), !.longitude = N(20)])
\* a map with the keys of a manual node and of a manual relationship
Both5 == ObjectField("Hub", 5, "LINK", 1, 2, NoProps)
\* a node without labels whose identity differs from City1's above the low word
Far1 ==
  [kind |-> "node", identity |-> [low |-> 1, high |-> 1], labels |-> << >>,
   properties |-> [NoProps EXCEPT !.lat = N(30), !.long = N(40)]]
\* maps that are neither a manual node nor a manual relationship
HalfMap == ObjectField("", 7, "REL", 1, 0, NoProps)
LabelOnly == ObjectField("Ghost", 0, "", 0, 0, NoProps)

Row(fields) == [_fields |-> fields]

Rows ==
  { Row(<<City1, Road9, Town2, Road8, Bare3>>),
    Row(<<Garbled2>>),
    Row(<<Poi3, ScalarField, Equator4>>),
    Row(<<Rail9, Road9, NullField, Both5>>),
    Row(<<ArrayField(<<Town2,
            PathField(<<[start |-> City1, relationship |-> Road9, end |-> Bare3]>>),
            Far1>>)>>),
    Row(<<ScalarField, HalfMap, LabelOnly>>) }

\* the record sequences a query (or props.records) can deliver
RecordSets ==
  {<< >>} \cup {<<r>> : r \in Rows}
  \cup {<<Row(<<City1, Road9, Town2, Road8, Bare3>>),
          Row(<<Poi3, ScalarField, Equator4>>)>>}

\* props.dimensions as delivered; 0 stands for an unset dimension
DimensionChoices ==
  { [width |-> defaultDimension, height |-> defaultDimension],
    [width |-> 0, height |-> 2 * defaultDimension] }

customFilterQuery == "MATCH (n:Place)-[r]->(m)"

\* props.settings as delivered
SettingsChoices == {[filterQuery |-> ""], [filterQuery |-> customFilterQuery]}

\* the props a dashboard hands to the component: the default card without
\* a filterQuery setting, or the resized card with one
PropsChoices ==
  {p \in [dimensions : DimensionChoices, settings : SettingsChoices] :
     (p.dimensions.width = 0) <=> (p.settings.filterQuery # "")}

(***************************************************************************)
(* Geo-filter query builder (lines 246-318).                               *)
(***************************************************************************)
LatLng(lat, lng) == [lat |-> lat, lng |-> lng]

\* the layers the drawing surface can hand to onCreated
Layers ==
  { [layerType |-> "circle", center |-> LatLng(10, 20), radius |-> 500],
    [layerType |-> "rectangle", northWest |-> LatLng(5, 0), southEast |-> LatLng(0, 5)],
    [layerType |-> "rectangle", northWest |-> LatLng(8, 1), southEast |-> LatLng(2, 7)],
    [layerType |-> "polygon",
     latLngs |-> <<<<LatLng(0, 0), LatLng(0, 5), LatLng(5, 5)>>>>],
    [layerType |-> "polyline", latLngs |-> <<LatLng(0, 0), LatLng(5, 5)>>],
    [layerType |-> "marker", latLngs |-> << >>] }

NoQuery == [kind |-> "none"]
UndefinedQuery == [kind |-> "undefined"]
OriginalQuery == [kind |-> "original", text |-> "props.query"]

\* the template literals of handleGeoFilter, kept as their parts
handleGeoFilterQuery(filterData, radius, type) ==
  CASE type = "circle" ->
         [kind |-> "fragment", match |-> filterQuery,
          where |-> [pred |-> "point.distance <=", lat |-> filterData.lat,
                     lon |-> filterData.lon, radius |-> radius],
          return |-> "n, r, m"]
    [] type = "rectangle" ->
         [kind |-> "fragment", match |-> filterQuery,
          where |-> [pred |-> "latitude/longitude range",
                     latMin |-> filterData.bottomRight.lat,
                     latMax |-> filterData.topLeft.lat,
                     lonMin |-> filterData.topLeft.lng,
                     lonMax |-> filterData.bottomRight.lng],
          return |-> "n, r, m"]
    [] type = "polygon" ->
         [kind |-> "fragment", match |-> filterQuery,
          where |-> [pred |-> "point.inPolygon", points |-> filterData.points[1]],
          return |-> "n, r, m"]
    [] type = "polyline" ->
         [kind |-> "fragment", match |-> filterQuery,
          where |-> [pred |-> "ANY point.distance <=", points |-> filterData.points,
                     radius |-> IF radius # 0 THEN radius ELSE defaultPolylineRadius],
          return |-> "n, r, m"]
    [] OTHER -> UndefinedQuery

\* variant: a trailing else that forwards every other layer type
OnCreatedCallsAlways(layerType) == TRUE

\* whether onCreated calls handleGeoFilter for this layer type
OnCreatedCalls(layerType) ==
  layerType \in {"circle", "rectangle", "polygon", "polyline"}

\* variant: the corners of the rectangle's bounds are taken crosswise
OnCreatedArgsCrossed(layer) ==
  CASE layer.layerType = "circle" ->
         [filterData |-> [lat |-> layer.center.lat, lon |-> layer.center.lng],
          radius |-> layer.radius, type |-> "circle"]
    [] layer.layerType = "rectangle" ->
         [filterData |-> [topLeft |-> layer.southEast, bottomRight |-> layer.northWest],
          radius |-> 0, type |-> "rectangle"]
    [] OTHER ->
         [filterData |-> [points |-> layer.latLngs], radius |-> 0,
          type |-> layer.layerType]

\* the arguments onCreated passes to handleGeoFilter (radius null is 0)
OnCreatedArgs(layer) ==
  CASE layer.layerType = "circle" ->
         [filterData |-> [lat |-> layer.center.lat, lon |-> layer.center.lng],
          radius |-> layer.radius, type |-> "circle"]
    [] layer.layerType = "rectangle" ->
         [filterData |-> [topLeft |-> layer.northWest, bottomRight |-> layer.southEast],
          radius |-> 0, type |-> "rectangle"]
    [] OTHER ->
         [filterData |-> [points |-> layer.latLngs], radius |-> 0,
          type |-> layer.layerType]

(***************************************************************************)
(* State.                                                                  *)
(***************************************************************************)
VARIABLES
  data,              \* the React state of line 52 (the VisualizationState)
  closures,          \* render id -> accumulators of that render's closure
  render,            \* id of the current render
  pending,           \* requests in flight on the query channel
  issued,            \* number of calls made to props.queryCallback
  hasQueryCallback,  \* whether props.queryCallback is set
  dimensions,        \* props.dimensions
  loaded,            \* whether the mount effect of lines 69-71 has run
  cycles,            \* number of ingestion cycles committed
  lastRecords,       \* the records of the latest ingestion cycle
  lastReturn,        \* the dataSet the latest cycle returned
  lastAcc,           \* the accumulators the latest cycle left behind
  thrown,            \* whether a handler ended in a TypeError
  event              \* the operation that produced the current state

vars ==
  <<data, closures, render, pending, issued, hasQueryCallback,
    dimensions, loaded, cycles, lastRecords, lastReturn, lastAcc, thrown, event,
    settings>>

MaxRenders == MaxRequests + 2

InitialData ==
  [nodes |-> << >>, links |-> << >>, zoom |-> Num(0),
   centerLatitude |-> Num(0), centerLongitude |-> Num(0)]

Init ==
  /\ data = InitialData
  /\ closures = [r \in 1..MaxRenders |-> EmptyAcc]
  /\ render = 1
  /\ pending = {}
  /\ issued = 0
  /\ hasQueryCallback \in BOOLEAN
  /\ \E p \in PropsChoices : dimensions = p.dimensions /\ settings = p.settings
  /\ loaded = FALSE
  /\ cycles = 0
  /\ lastRecords = << >>
  /\ lastReturn = InitialData
  /\ lastAcc = EmptyAcc
  /\ thrown = FALSE
  /\ event = [op |-> "mount"]

\* variant: a commit that drops the result of all but the newest request
setDataIfNewest(current, dataSet, rid) == IF rid = issued THEN dataSet ELSE current

\* setData(dataSet) as called by the callback of request rid
setData(current, dataSet, rid) == dataSet

\* one ingestion cycle run by the closure of render owner, on behalf of rid
Ingest(owner, records, rid) ==
  LET r == buildVisualizationDictionaryFromRecords(closures[owner], records, dimensions)
      stillShared == \E q \in pending : q.owner = owner /\ q.rid # rid
  IN  /\ data' = setData(data, r.dataSet, rid)
      /\ lastReturn' = r.dataSet
      /\ lastAcc' = r.acc
      \* a closure no pending callback refers to is unreachable
      /\ closures' = [closures EXCEPT ![owner] = IF stillShared THEN r.acc ELSE EmptyAcc]
      /\ lastRecords' = records
      /\ cycles' = cycles + 1
      /\ render' = render + 1

\* useEffect(() => buildVisualizationDictionaryFromRecords(props.records), [])
InitialLoad ==
  /\ ~loaded
  /\ \E records \in RecordSets : Ingest(render, records, 0)
  /\ loaded' = TRUE
  /\ event' = [op |-> "load"]
  /\ UNCHANGED <<pending, issued, hasQueryCallback, dimensions, settings, thrown>>

\* props.queryCallback(query, {}, callback) called in the current render;
\* original tells whether the query sent is props.query
Dispatch(original) ==
  /\ issued' = issued + 1
  /\ pending' = pending \cup {[rid |-> issued + 1, owner |-> render,
                                original |-> original]}

\* onCreated, with the handleGeoFilter call it makes.  The handler that runs
\* is the one of the current render, so the callback it registers closes over
\* that render's accumulators; requests issued before the next commit share them.
OnCreated ==
  /\ loaded
  /\ issued < MaxRequests
  /\ \E layer \in Layers :
       LET a == OnCreatedArgs(layer)
           called == OnCreatedCalls(layer.layerType)
           query == IF called
                    THEN handleGeoFilterQuery(a.filterData, a.radius, a.type)
                    ELSE NoQuery
           sent == called /\ hasQueryCallback
       IN  /\ event' = [op |-> "onCreated", layerType |-> layer.layerType,
                        layer |-> layer, built |-> query, sent |-> sent]
           /\ IF sent THEN Dispatch(FALSE) ELSE UNCHANGED <<issued, pending>>
  /\ UNCHANGED <<data, closures, render, hasQueryCallback, dimensions, settings,
                 loaded, cycles, lastRecords, lastReturn, lastAcc, thrown>>

\* onDeleted: props.queryCallback is called without a guard
OnDeleted ==
  /\ loaded
  /\ issued < MaxRequests
  /\ event' = [op |-> "onDeleted", layerType |-> "", built |-> OriginalQuery,
               sent |-> hasQueryCallback]
  /\ IF hasQueryCallback
     THEN Dispatch(TRUE) /\ thrown' = thrown
     ELSE thrown' = TRUE /\ UNCHANGED <<issued, pending>>
  /\ UNCHANGED <<data, closures, render, hasQueryCallback, dimensions, settings,
                 loaded, cycles, lastRecords, lastReturn, lastAcc>>

\* the completion callback of a request: re-ingestion by the issuing closure
Callback ==
  /\ \E req \in pending :
       /\ \E records \in RecordSets : Ingest(req.owner, records, req.rid)
       /\ pending' = pending \ {req}
       /\ event' = [op |-> "callback", rid |-> req.rid, original |-> req.original]
  /\ UNCHANGED <<issued, hasQueryCallback, dimensions, settings, loaded, thrown>>

Next == InitialLoad \/ OnCreated \/ OnDeleted \/ Callback

Spec == Init /\ [][Next]_vars

(***************************************************************************)
(* Properties.                                                             *)
(***************************************************************************)
\* the relationship entities met while walking a field, in order of arrival
RECURSIVE EncounteredIn(_)
RECURSIVE EncounteredInEach(_)
RECURSIVE EncounteredInSegments(_)
EncounteredIn(value) ==
  CASE value.kind = "array" -> EncounteredInEach(value.items)
    [] value.kind = "object" ->
         IF ~IsManualNode(value) /\ IsManualRel(value)
         THEN <<ManualLink(value)>> ELSE << >>
    [] value.kind = "relationship" -> <<TypedLink(value)>>
    [] value.kind = "path" -> EncounteredInSegments(value.segments)
    [] OTHER -> << >>

EncounteredInEach(values) ==
  IF values = << >> THEN << >>
  ELSE EncounteredIn(Head(values)) \o EncounteredInEach(Tail(values))

EncounteredInSegments(segments) ==
  IF segments = << >> THEN << >>
  ELSE EncounteredIn(Head(segments).relationship)
       \o EncounteredInSegments(Tail(segments))

RECURSIVE EncounteredLinks(_)
EncounteredLinks(records) ==
  IF records = << >> THEN << >>
  ELSE EncounteredInEach(Head(records)._fields) \o EncounteredLinks(Tail(records))

SameRelationship(a, b) ==
  a.source = b.source /\ a.target = b.target /\ a.id = b.id

\* the link list the accumulators hold for the key of link
LinkListOf(links, link) ==
  IF \E i \in 1..Len(links) : links[i].key = <<link.source, link.target>>
  THEN links[CHOOSE i \in 1..Len(links) : links[i].key = <<link.source, link.target>>].items
  ELSE << >>

\* the positions of the committed links that stand for link
CommittedLinks(link) ==
  {i \in 1..Len(data.links) :
     data.links[i] # Undefined /\ SameRelationship(data.links[i], link)}

\* the pos of the committed node id, NoPos when there is no such node
CommittedPos(id) ==
  IF \E i \in 1..Len(data.nodes) : data.nodes[i].id = id
  THEN data.nodes[CHOOSE i \in 1..Len(data.nodes) : data.nodes[i].id = id].pos
  ELSE NoPos

Committed == cycles >= 1

\* the entities the records of the latest cycle contain, taken alone
ThisCycle == ExtractRecords(EmptyAcc, lastRecords)

\* C1: every committed state holds only nodes and links extracted from the
\* records of the cycle that committed it.
C1_OnlyThisCycle ==
  Committed =>
    /\ \A i \in 1..Len(data.nodes) : data.nodes[i].id \in DOMAIN ThisCycle.nodes
    /\ \A i \in 1..Len(data.links) :
         data.links[i] # Undefined =>
           \E e \in 1..Len(EncounteredLinks(lastRecords)) :
             SameRelationship(EncounteredLinks(lastRecords)[e], data.links[i])

\* C2: the committed state is always the dataSet of the callback that
\* completed last, whatever the order in which the requests were issued.
C2_LastWriteWins == Committed => data = lastReturn

\* two requests were in flight together and the older one completed last
C2_Witness ==
  /\ issued = 2 /\ cycles = 3 /\ pending = {}
  /\ event.op = "callback" /\ event.rid = 1
  /\ data = lastReturn /\ data.nodes # << >>

\* C3: a cycle over the same records as the cycle before it commits the
\* same state.
C3_Idempotent ==
  [][(Committed /\ cycles' = cycles + 1 /\ lastRecords' = lastRecords)
       => data' = data]_vars

\* C4: a relationship extracted in the cycle is in the committed links iff
\* both endpoint nodes are committed with a position, and then its start and
\* end are those positions.
C4_LinkDependency ==
  Committed =>
    \A e \in 1..Len(EncounteredLinks(lastRecords)) :
      LET link == EncounteredLinks(lastRecords)[e]
          hits == CommittedLinks(link)
      IN  /\ (hits # {}) <=>
               (CommittedPos(link.source) # NoPos /\ CommittedPos(link.target) # NoPos)
          /\ \A i \in hits :
               /\ data.links[i].start = CommittedPos(link.source)
               /\ data.links[i].end = CommittedPos(link.target)

\* one extracted relationship is committed with its coordinates, another
\* one is dropped for an endpoint without position
C4_Witness ==
  /\ Committed
  /\ \E e \in 1..Len(EncounteredLinks(lastRecords)) :
       /\ CommittedLinks(EncounteredLinks(lastRecords)[e]) # {}
       /\ CommittedPos(EncounteredLinks(lastRecords)[e].source) # NoPos
  /\ \E e \in 1..Len(EncounteredLinks(lastRecords)) :
       /\ CommittedLinks(EncounteredLinks(lastRecords)[e]) = {}
       /\ CommittedPos(EncounteredLinks(lastRecords)[e].target) = NoPos

\* C5: of two relationships of one ingestion call with the same source,
\* target and id, the first one met is the one the link list keeps.
C5_FirstSeenKept ==
  Committed =>
    LET enc == EncounteredLinks(lastRecords) IN
    \A i, j \in 1..Len(enc) :
      (i < j /\ SameRelationship(enc[i], enc[j])
         /\ \A h \in 1..(i - 1) : ~SameRelationship(enc[h], enc[i]))
      => LET list == LinkListOf(lastAcc.links, enc[i])
         IN  /\ \E k \in 1..Len(list) : list[k] = enc[i]
             /\ \A k \in 1..Len(list) : list[k].id = enc[i].id => list[k] = enc[i]

\* C6: a committed node's pos is absent or a pair of two valid numbers.
C6_PositionExclusive ==
  Committed =>
    \A i \in 1..Len(data.nodes) :
      \/ data.nodes[i].pos = NoPos
      \/ /\ Len(data.nodes[i].pos) = 2
         /\ IsFinite(data.nodes[i].pos[1])
         /\ IsFinite(data.nodes[i].pos[2])

\* the zoom level of one axis from that axis's own maximum and minimum
AxisLevel(coordinates, scaleFactor) ==
  AxisZoomFit(MathMax(coordinates), MathMin(coordinates), scaleFactor)

LatLevel ==
  AxisLevel(Coordinates(data.nodes, 1),
            Rat(PixelDimension(dimensions.width) * ScaleDen, widthScaleNum))

LongLevel ==
  AxisLevel(Coordinates(data.nodes, 2),
            Rat(PixelDimension(dimensions.height) * ScaleDen, heightScaleNum))

\* C7: the committed zoom is the minimum of the latitude level and the
\* longitude level, each computed from its own axis's maximum and minimum.
C7_ZoomIsMinOfAxisLevels == Committed => data.zoom = Min2(LatLevel, LongLevel)

SpansAxis(coordinates) ==
  /\ \A i \in 1..Len(coordinates) : IsFinite(coordinates[i])
  /\ \E i, j \in 1..Len(coordinates) : coordinates[i] # coordinates[j]

PositionsOf(d) ==
  {d.nodes[i].pos : i \in {j \in 1..Len(d.nodes) : d.nodes[j].pos # NoPos}}

\* max - min of one axis over a set of positions
RECURSIVE SetToSeq(_)
SetToSeq(S0) ==
  IF S0 = {} THEN << >>
  ELSE LET x == CHOOSE y \in S0 : TRUE IN <<x>> \o SetToSeq(S0 \ {x})

Spread(positions, axis) ==
  LET xs == SetToSeq({p[axis] : p \in positions})
  IN  Sub(MathMax(xs), MathMin(xs))

\* C9: when the positioned nodes A of one committed state (at least one) are
\* among the positioned nodes B of the next and the spread grew on an axis,
\* fit(B).zoom <= fit(A).zoom; with the same spread on both axes the two
\* zooms are equal.
C9_ZoomMonotone ==
  [][(Committed /\ cycles' = cycles + 1
        /\ PositionsOf(data) # {} /\ PositionsOf(data) \subseteq PositionsOf(data'))
       => /\ (\E axis \in {1, 2} :
                Lt(Spread(PositionsOf(data), axis), Spread(PositionsOf(data'), axis)))
              => Leq(data'.zoom, data.zoom)
          /\ (\A axis \in {1, 2} :
                Spread(PositionsOf(data), axis) = Spread(PositionsOf(data'), axis)
                /\ Spread(PositionsOf(data), axis) # NaN)
              => data'.zoom = data.zoom]_vars

RecognizedKinds == {"circle", "rectangle", "polygon", "polyline"}

\* C10: a shape-drawn event of an unrecognized kind builds no fragment,
\* calls the query channel not at all and leaves the state as it is.
C10_UnrecognizedInert ==
  [][(event'.op = "onCreated" /\ event'.layerType \notin RecognizedKinds
        /\ event' # event)
       => /\ event'.built = NoQuery /\ ~event'.sent
          /\ issued' = issued /\ pending' = pending
          /\ data' = data /\ closures' = closures]_vars

\* an unrecognized shape was drawn while a query channel is configured and
\* a request is in flight
C10_Witness ==
  /\ event.op = "onCreated" /\ event.layerType = "marker"
  /\ hasQueryCallback /\ pending # {}

\* C11: a shape-deleted event dispatches exactly the original query, and
\* when its callback completes with no other request in flight the committed
\* state is the one obtained by ingesting that callback's records alone.
C11_DeleteRestoresOriginal ==
  /\ (event.op = "onDeleted" /\ hasQueryCallback) =>
        /\ event.built = OriginalQuery
        /\ \E req \in pending : req.rid = issued /\ req.original
  /\ (event.op = "callback" /\ event.original /\ pending = {}) =>
        data = buildVisualizationDictionaryFromRecords(
                 EmptyAcc, lastRecords, dimensions).dataSet

\* a node carries the property when its value is not null
Carries(v) == v.t # "null"

\* C12: a committed node that carries both latitude and longitude has
\* pos = [latitude, longitude] whatever their values, and a committed node
\* is without pos only when it carries neither that pair, nor lat and long,
\* nor a spatial point.
C12_PositionByFirstRule ==
  Committed =>
    \A i \in 1..Len(data.nodes) :
      LET node == data.nodes[i]
          p == node.properties
      IN  /\ (Carries(p.latitude) /\ Carries(p.longitude)) =>
               node.pos = <<ParseFloat(p.latitude), ParseFloat(p.longitude)>>
          /\ node.pos = NoPos =>
               /\ ~(Carries(p.latitude) /\ Carries(p.longitude))
               /\ ~(Carries(p.lat) /\ Carries(p.long))
               /\ ~IsSpatialPoint(p.location)

\* the values of a field that are neither an array nor a path, in order
RECURSIVE LeafValues(_)
RECURSIVE LeafValuesEach(_)
RECURSIVE LeafValuesSegments(_)
LeafValues(value) ==
  CASE value.kind = "array" -> LeafValuesEach(value.items)
    [] value.kind = "path" -> LeafValuesSegments(value.segments)
    [] OTHER -> <<value>>

LeafValuesEach(values) ==
  IF values = << >> THEN << >>
  ELSE LeafValues(Head(values)) \o LeafValuesEach(Tail(values))

LeafValuesSegments(segments) ==
  IF segments = << >> THEN << >>
  ELSE LeafValues(Head(segments).start) \o LeafValues(Head(segments).relationship)
       \o LeafValues(Head(segments).end) \o LeafValuesSegments(Tail(segments))

RECURSIVE LeafValuesOf(_)
LeafValuesOf(records) ==
  IF records = << >> THEN << >>
  ELSE LeafValuesEach(Head(records)._fields) \o LeafValuesOf(Tail(records))

\* the accumulators hold a node under id
HoldsNode(acc, id) == id \in DOMAIN acc.nodes

\* the accumulators hold a link id from source s to target t
HoldsLink(acc, s, t, id) ==
  \E i \in 1..Len(acc.links) :
    /\ acc.links[i].key = <<s, t>>
    /\ \E j \in 1..Len(acc.links[i].items) : acc.links[i].items[j].id = id

\* the shape a leaf value is claimed to be handled as: the first it matches
ShapeOf(v) ==
  CASE v.kind = "object" /\ v.label # "" /\ v.id # 0 -> "manual node"
    [] v.kind = "object" /\ v.type # "" /\ v.id # 0 /\ v.start # 0 /\ v.end # 0 ->
         "manual relationship"
    [] v.kind = "node" -> "node"
    [] v.kind = "relationship" -> "relationship"
    [] OTHER -> "none"

NoShapeIn(records) ==
  \A i \in 1..Len(LeafValuesOf(records)) : ShapeOf(LeafValuesOf(records)[i]) = "none"

\* the accumulators the handler of the step works on
AccumulatorsOfStep(req) == closures[req.owner]

\* C13: every field is handled as the first shape it matches (a map with
\* label and id becomes a node only, even with type, start and end), and a
\* cycle whose fields match no shape leaves nodes, links and labels alone.
C13_FirstShapeOnly ==
  /\ [](Committed =>
         \A i \in 1..Len(LeafValuesOf(lastRecords)) :
           LET v == LeafValuesOf(lastRecords)[i] IN
           CASE ShapeOf(v) = "manual node" ->
                  /\ HoldsNode(lastAcc, v.id)
                  /\ InSeq(v.label, lastAcc.nodeLabels)
                  /\ ~HoldsLink(lastAcc, v.start, v.end, v.id)
             [] ShapeOf(v) = "manual relationship" ->
                  HoldsLink(lastAcc, v.start, v.end, v.id)
             [] ShapeOf(v) = "node" -> HoldsNode(lastAcc, v.identity.low)
             [] ShapeOf(v) = "relationship" ->
                  HoldsLink(lastAcc, v.start.low, v.end.low, v.identity.low)
             [] OTHER -> TRUE)
  /\ [][\A req \in pending :
          (event'.op = "callback" /\ event'.rid = req.rid /\ NoShapeIn(lastRecords'))
            => lastAcc' = AccumulatorsOfStep(req)]_vars

\* a callback ingested a map with the keys of both a manual node and a
\* manual relationship, and kept it as a node
C13_Witness ==
  /\ event.op = "callback"
  /\ \E i \in 1..Len(LeafValuesOf(lastRecords)) :
       LET v == LeafValuesOf(lastRecords)[i] IN
       /\ v.kind = "object" /\ v.label # "" /\ v.id # 0
       /\ v.type # "" /\ v.start # 0 /\ v.end # 0
       /\ HoldsNode(lastAcc, v.id)
       /\ \E j \in 1..Len(data.nodes) : data.nodes[j].id = v.id

\* the rank of a first label among the distinct labels of the accumulators
RankOf(label) ==
  IF InSeq(label, lastAcc.nodeLabels)
  THEN (CHOOSE i \in 1..Len(lastAcc.nodeLabels) : lastAcc.nodeLabels[i] = label) - 1
  ELSE -1

\* the palette entry claimed for a label, the default when there is none
ClaimedColor(label) ==
  IF RankOf(label) >= 0 THEN Palette[(RankOf(label) % Len(Palette)) + 1]
  ELSE defaultNodeColor

\* every committed node without a color property has the color claimed
ColorsByRank ==
  \A i \in 1..Len(data.nodes) :
    /\ data.nodes[i].color # ""
    /\ data.nodes[i].properties.color = "" =>
         data.nodes[i].color = ClaimedColor(data.nodes[i].firstLabel)

\* committed nodes without a color property and with different first labels
\* have different colors
ColorsDistinct ==
  \A i, j \in 1..Len(data.nodes) :
    (/\ data.nodes[i].properties.color = "" /\ data.nodes[j].properties.color = ""
     /\ data.nodes[i].firstLabel # data.nodes[j].firstLabel)
      => data.nodes[i].color # data.nodes[j].color

\* C14 as stated: every committed node has a color, the palette entry at
\* the rank of its first label modulo the palette size (gray by default),
\* and two nodes with different first labels never have the same color.
C14_ColorNonColliding == Committed => (ColorsByRank /\ ColorsDistinct)

\* C14 as it holds: every committed node has a color, the palette entry at
\* the rank of its first label modulo the palette size (gray by default);
\* nodes with different first labels have different colors as long as the
\* accumulators hold no more distinct labels than the palette has entries.
C14_ColorByRankModPalette ==
  Committed =>
    /\ ColorsByRank
    /\ Len(lastAcc.nodeLabels) <= Len(Palette) => ColorsDistinct

\* nodes of three different labels are committed with three palette colors,
\* next to a node without label in the default color
C14_Witness ==
  /\ Committed
  /\ Len(lastAcc.nodeLabels) = Len(Palette)
  /\ \E i, j \in 1..Len(data.nodes) :
       /\ data.nodes[i].firstLabel # NoLabel
       /\ data.nodes[j].firstLabel # NoLabel
       /\ data.nodes[i].firstLabel # data.nodes[j].firstLabel
       /\ data.nodes[i].color # data.nodes[j].color
       /\ data.nodes[i].color # defaultNodeColor
  /\ \E k \in 1..Len(data.nodes) :
       data.nodes[k].firstLabel = NoLabel /\ data.nodes[k].color = defaultNodeColor

\* C15: for each of the four shape kinds the fragment built begins with the
\* configured match pattern (the filterQuery setting when supplied, otherwise
\* MATCH (n)-[r]->(m)) and ends by returning n, r, m.
C15_FragmentFrame ==
  (event.op = "onCreated" /\ event.layerType \in RecognizedKinds) =>
    /\ event.built.kind = "fragment"
    /\ event.built.match =
         (IF settings.filterQuery # "" THEN settings.filterQuery
          ELSE "MATCH (n)-[r]->(m)")
    /\ event.built.return = "n, r, m"

\* a polygon was drawn with a filterQuery setting supplied, and its
\* fragment was handed to the query channel
C15_Witness ==
  /\ event.op = "onCreated" /\ event.layerType = "polygon" /\ event.sent
  /\ settings.filterQuery = customFilterQuery
  /\ event.built.match = customFilterQuery

\* C16: the fragment of a rectangle constrains latitude to
\* [bottomRight.lat, topLeft.lat] and longitude to [topLeft.lng,
\* bottomRight.lng]; for topLeft (5, 0) and bottomRight (0, 5) both ranges
\* are [0, 5].
C16_RectangleRanges ==
  (event.op = "onCreated" /\ event.layerType = "rectangle") =>
    LET w == event.built.where
        topLeft == event.layer.northWest
        bottomRight == event.layer.southEast
    IN  /\ w.latMin = bottomRight.lat /\ w.latMax = topLeft.lat
        /\ w.lonMin = topLeft.lng /\ w.lonMax = bottomRight.lng
        /\ (topLeft = LatLng(5, 0) /\ bottomRight = LatLng(0, 5)) =>
             (w.latMin = 0 /\ w.latMax = 5 /\ w.lonMin = 0 /\ w.lonMax = 5)

\* the rectangle from (5, 0) to (0, 5) was drawn and its fragment sent
C16_Witness ==
  /\ event.op = "onCreated" /\ event.layerType = "rectangle" /\ event.sent
  /\ event.layer.northWest = LatLng(5, 0) /\ event.layer.southEast = LatLng(0, 5)
  /\ event.built.where.latMin = 0 /\ event.built.where.lonMax = 5

\* the relationships the accumulators hold, as (source, target, id)
HeldRelationships ==
  UNION {{<<lastAcc.links[i].items[j].source, lastAcc.links[i].items[j].target,
            lastAcc.links[i].items[j].id>> : j \in 1..Len(lastAcc.links[i].items)} :
         i \in 1..Len(lastAcc.links)}

\* those of them whose two endpoints are nodes with a position
PositionedRelationships ==
  {r \in HeldRelationships : HasPos(lastAcc.nodes, r[1]) /\ HasPos(lastAcc.nodes, r[2])}

\* C17 as stated: every element of the committed links carries start and
\* end, and the links are as many as the deduplicated relationships whose
\* two endpoints are positioned.
C17_LinksAllPositioned ==
  Committed =>
    /\ \A i \in 1..Len(data.links) : data.links[i] # Undefined
    /\ Len(data.links) = Cardinality(PositionedRelationships)

\* C17 as it holds: every defined element of the committed links carries
\* start and end; the links hold one element per deduplicated relationship,
\* undefined for an unresolved one, and the line layer, which skips the
\* undefined elements, draws as many lines as there are relationships
\* whose two endpoints are positioned.
C17_LinesAllPositioned ==
  Committed =>
    /\ \A i \in 1..Len(data.links) :
         data.links[i] # Undefined =>
           (data.links[i].start # NoPos /\ data.links[i].end # NoPos)
    /\ Len(data.links) = Cardinality(HeldRelationships)
    /\ Len(createLines(data.links)) = Cardinality(PositionedRelationships)
    /\ \A i \in 1..Len(createLines(data.links)) :
         /\ createLines(data.links)[i].positions[1] # NoPos
         /\ createLines(data.links)[i].positions[2] # NoPos

\* a committed state with a resolved and an unresolved relationship: two
\* elements in links, one line drawn
C17_Witness ==
  /\ Committed
  /\ Len(data.links) = 2 /\ Len(createLines(data.links)) = 1
  /\ \E i \in 1..2 : data.links[i] = Undefined

\* C18: the center and the zoom handed to the map surface are always finite
\* numbers; a committed zoom that is not finite is passed as 0.
C18_MapPropsFinite ==
  /\ IsFinite(MapContainerProps(data).center[1])
  /\ IsFinite(MapContainerProps(data).center[2])
  /\ IsFinite(MapContainerProps(data).zoom)
  /\ ~IsFinite(data.zoom) => MapContainerProps(data).zoom = Num(0)

\* C19: without a query channel a shape-drawn and a shape-deleted event
\* dispatch no query, raise no error and leave the state unchanged.
C19_InertWithoutChannel ==
  [][(~hasQueryCallback /\ event'.op \in {"onCreated", "onDeleted"})
       => /\ issued' = issued /\ pending' = pending
          /\ thrown' = thrown
          /\ data' = data]_vars

\* the native identities of the typed nodes in the records of the latest cycle
TypedIdentities ==
  {LeafValuesOf(lastRecords)[i].identity :
     i \in {j \in 1..Len(LeafValuesOf(lastRecords)) :
              LeafValuesOf(lastRecords)[j].kind = "node"}}

\* C20: typed nodes with different native identities are never merged: the
\* node map holds at least one entry per identity ingested, also for
\* identities that differ only above their low 32-bit word.
C20_DistinctIdentitiesKept ==
  Committed => Cardinality(DOMAIN lastAcc.nodes) >= Cardinality(TypedIdentities)

====
